---- MODULE Spec2Model ----
(***************************************************************************)
(* tuish: the event loop of src/main.rs as a state machine.                *)
(*                                                                         *)
(* One step of the model is one event read by the loop (event::read at     *)
(* line 244, or the "press any key" read at line 105), or the end of one   *)
(* blocking wait on an external process (lines 95 and 293).                *)
(*                                                                         *)
(* Encodings:                                                              *)
(*   String          a sequence of one-character strings, <<"a","b">>      *)
(*   Option<T>       a sequence of length <= 1: None == <<>>, Some(x)      *)
(*   usize indices   0-based as in the source; aliases[i] is At(aliases,i) *)
(*   HashMap<K,V>    a function whose DOMAIN is the set of keys            *)
(***************************************************************************)
EXTENDS Naturals, Sequences, FiniteSets, TLC

(* ---- bounds of the model ---- *)
MaxAliases == 2

(* the characters a key press or a config file can carry *)
Chars == {"a", "b"}

(* the texts the model lets a name or a command be: a Char key that would type past them is not pressed *)
Texts == {<<>>, <<"a">>}
(* the texts an input buffer holds while it is typed: one character more than a stored text, so that a Backspace has something to leave behind *)
Typed == Texts \cup {<<"a", "b">>}

(* ---- program constants ---- *)
MIN_W == 40
MIN_H == 10

options == <<"Add an alias", "Edit an alias", "Remove an alias", "Go to shell", "Quit shell">>

(* ---- Option<T> ---- *)
None == <<>>
Some(x) == <<x>>
is_none(o) == o = <<>>
is_some(o) == o # <<>>
unwrap(o) == o[1]
unwrap_or(o, d) == IF o = <<>> THEN d ELSE o[1]

(* ---- String ---- *)
push(s, c) == Append(s, c)

(* pop emptying the string instead of dropping its last character *)
pop_clears(s) == <<>>

(* String::pop, the popped character dropped *)
pop(s) == IF Len(s) = 0 THEN s ELSE SubSeq(s, 1, Len(s) - 1)

to_string(c) == <<c>>

chars_next(s) == IF Len(s) = 0 THEN None ELSE Some(s[1])

(* ---- Vec<T>, 0-based ---- *)
At(v, i) == v[i + 1]

InRange(v, i) == i < Len(v)

(* remove dropping the last element whatever the index (a pop in place of remove(idx)) *)
remove_pops(v, i) == SubSeq(v, 1, Len(v) - 1)

(* Vec::remove on an index in range *)
remove(v, i) == SubSeq(v, 1, i) \o SubSeq(v, i + 2, Len(v))

Min(S) == CHOOSE x \in S : \A y \in S : x <= y

(* position returning the last match instead of the first *)
position_last(v, c) == LET hits == {i \in 0..(Len(v) - 1) : At(v, i).keybind = Some(c)} IN IF Len(v) = 0 \/ hits = {} THEN None ELSE Some(CHOOSE x \in hits : \A y \in hits : y <= x)

(* line 312: aliases.iter().position(|a| a.keybind == Some(c)) *)
position(v, c) == LET hits == {i \in 0..(Len(v) - 1) : At(v, i).keybind = Some(c)} IN IF Len(v) = 0 \/ hits = {} THEN None ELSE Some(Min(hits))

(***************************************************************************)
(* The state of main:                                                      *)
(*   aliases        Vec<Alias>, the store (line 120)                       *)
(*   alias_state    alias_state.selected(), the alias cursor (line 133)    *)
(*   focus          "Actions" or "Aliases" (line 135)                      *)
(*   ui_mode        UiMode (line 137)                                      *)
(*   selected_opt   index into options (line 138); opt_state mirrors it    *)
(*   default_shell  cfg.default_shell (line 126)                           *)
(*   cnfg_json      the config file as it parses: Some(ConfigFile), or     *)
(*                  None when its text is not a ConfigFile; a write is     *)
(*                  the content write_config hands to fs::write            *)
(*   warning        the last terminal.draw took the too-small branch and   *)
(*                  drew only the warning (lines 146-153)                  *)
(*   pc             where the loop waits: "read" (line 244), "status"      *)
(*                  (line 95), "anykey" (line 105), "wait" (line 293),     *)
(*                  or "exited" (line 305), "panic"                        *)
(*   child          the external process being run, if any                 *)
(*   raw_mode       terminal raw mode (enable_/disable_raw_mode)           *)
(*   alt_screen     terminal on the alternate screen                       *)
(*   boot           what a process about to run main will find: Some of    *)
(*                  [exists: the config file exists, env_shell: the value  *)
(*                  of SHELL]; None once main has read them (pc = "start"  *)
(*                  is the process before line 109)                        *)
(* terminal.draw reads this state and changes none of it.                  *)
(***************************************************************************)
VARIABLES aliases, alias_state, focus, ui_mode, selected_opt, default_shell, cnfg_json, warning, pc, child, raw_mode, alt_screen, boot

vars == <<aliases, alias_state, focus, ui_mode, selected_opt, default_shell, cnfg_json, warning, pc, child, raw_mode, alt_screen, boot>>

(* ---- UiMode (lines 36-43), Focus (lines 45-48), KeyCode ---- *)
UiMode_Main == [tag |-> "Main"]
UiMode_Adding(step, name, command, keybind) == [tag |-> "Adding", step |-> step, name |-> name, command |-> command, keybind |-> keybind]
UiMode_EditingSelect == [tag |-> "EditingSelect"]
UiMode_Editing(index, command) == [tag |-> "Editing", index |-> index, command |-> command]
UiMode_RemovingSelect == [tag |-> "RemovingSelect"]
UiMode_Message(msg) == [tag |-> "Message", msg |-> msg]

Key(code) == [code |-> code, ch |-> ""]
KeyChar(c) == [code |-> "Char", ch |-> c]

(* every key code the loop tells apart, F1 standing for all the others *)
KeyCodes == {Key("Tab"), Key("Up"), Key("Down"), Key("Enter"), Key("Esc"), Key("Backspace"), Key("F1")} \cup {KeyChar(c) : c \in Chars}

(* ---- struct Alias, AliasEntry, ConfigFile ---- *)
Alias(name, command, keybind) == [name |-> name, command |-> command, keybind |-> keybind]
AliasEntry(command, keybind) == [command |-> command, keybind |-> keybind]
ConfigFile(map, shell) == [aliases |-> map, default_shell |-> shell]

EmptyMap == [n \in {} |-> AliasEntry(<<>>, None)]

(* HashMap::insert: a later insert under the same key replaces the entry *)
insert(map, k, v) == [n \in (DOMAIN map) \cup {k} |-> IF n = k THEN v ELSE map[n]]

(* lines 65-68: the map built from the store, front to back *)
RECURSIVE BuildMap(_, _)
BuildMap(map, v) == IF Len(v) = 0 THEN map ELSE BuildMap(insert(map, Head(v).name, AliasEntry(Head(v).command, IF is_none(Head(v).keybind) THEN None ELSE Some(to_string(unwrap(Head(v).keybind))))), Tail(v))

(* write_config: the content handed to fs::write, as it parses back *)
write_config(v, shell) == Some(ConfigFile(BuildMap(EmptyMap, v), shell))

(* ensure_config: the ConfigFile returned; file = [exists, content], content = None when the text does not parse *)
ensure_config(file, env_shell) == IF ~file.exists THEN ConfigFile(EmptyMap, "/bin/bash") ELSE IF is_some(file.content) THEN unwrap(file.content) ELSE ConfigFile(EmptyMap, unwrap_or(env_shell, "sh"))

(* ensure_config: the file it leaves on disk *)
ensure_config_file(file) == IF ~file.exists THEN Some(ConfigFile(EmptyMap, "/bin/bash")) ELSE file.content

(* lines 120-124: the store built from the map, visited in the order `order` *)
load_aliases(map, order) == [i \in 1..Len(order) |-> Alias(order[i], map[order[i]].command, IF is_none(map[order[i]].keybind) THEN None ELSE chars_next(unwrap(map[order[i]].keybind)))]

(* a HashMap is iterated in an arbitrary order: every arrangement of its keys *)
Orders(S) == {o \in [1..Cardinality(S) -> S] : \A i, j \in 1..Cardinality(S) : o[i] = o[j] => i = j}

(* line 70: the texts serde_json::to_string_pretty can write for cfg: the fields in declaration order, the entries of the HashMap in the order its iteration yields, which is any order *)
to_string_pretty(cfg) == {[aliases |-> [i \in 1..Len(order) |-> [key |-> order[i], value |-> cfg.aliases[order[i]]]], default_shell |-> cfg.default_shell] : order \in Orders(DOMAIN cfg.aliases)}

(* line 86: serde_json::from_str on a text that parses *)
from_str(text) == ConfigFile([name \in {text.aliases[i].key : i \in 1..Len(text.aliases)} |-> text.aliases[CHOOSE i \in 1..Len(text.aliases) : text.aliases[i].key = name].value], text.default_shell)

(* lines 120-126 then 64-73: the texts a load of cfg followed by a save can leave in the file *)
load_then_save(cfg) == UNION {to_string_pretty(unwrap(write_config(load_aliases(cfg.aliases, order), cfg.default_shell))) : order \in Orders(DOMAIN cfg.aliases)}

(* ---- what the environment can hand the program at start ---- *)
FileKeybinds == {None, Some(<<>>), Some(<<"b">>), Some(<<"a", "b">>)}
FileEntries == {AliasEntry(c, k) : c \in Texts, k \in FileKeybinds}
FileMaps == UNION {[S -> FileEntries] : S \in SUBSET Texts}
FileShells == {"/bin/zsh"}
Files == {[exists |-> FALSE, content |-> None]} \cup {[exists |-> TRUE, content |-> None]} \cup {[exists |-> TRUE, content |-> Some(ConfigFile(m, s))] : m \in FileMaps, s \in FileShells}
EnvShells == {None, Some("/bin/zsh")}
Widths == {MIN_W - 1, MIN_W}
Heights == {MIN_H - 1, MIN_H}

(* lines 146: the draw takes the warning-only branch *)
TooSmall(w, h) == w < MIN_W \/ h < MIN_H

(* ---- main, lines 109-138 ---- *)
Init == \E file \in Files, env_shell \in EnvShells, w \in Widths, h \in Heights : LET cfg == ensure_config(file, env_shell) IN \E order \in Orders(DOMAIN cfg.aliases) :
    /\ aliases = load_aliases(cfg.aliases, order)
    /\ default_shell = cfg.default_shell
    /\ cnfg_json = ensure_config_file(file)
    /\ alias_state = IF Len(aliases) # 0 THEN Some(0) ELSE None
    /\ focus = "Actions"
    /\ ui_mode = UiMode_Main
    /\ selected_opt = 0
    /\ warning = TooSmall(w, h)
    /\ pc = "read"
    /\ child = None
    /\ raw_mode = TRUE
    /\ alt_screen = TRUE
    /\ boot = None

(* ---- frames ---- *)
term == <<pc, child, raw_mode, alt_screen>>

(* lines 316-318 with 92-95: leave the UI and hand `cmd` to `shell -c`; the loop blocks in Command::status *)
run_alias(cmd) ==
    /\ raw_mode' = FALSE
    /\ alt_screen' = FALSE
    /\ child' = Some([shell |-> default_shell, arg_c |-> Some(cmd)])
    /\ pc' = "status"

(* an out-of-range aliases[i] or aliases.remove(i) panics: the process dies where it stands *)
panic ==
    /\ pc' = "panic"
    /\ UNCHANGED <<aliases, alias_state, focus, ui_mode, selected_opt, default_shell, cnfg_json, warning, child, raw_mode, alt_screen>>

(* lines 249-261: Tab, handled before the mode is looked at *)
KeyTab ==
    /\ focus' = IF focus = "Actions" THEN "Aliases" ELSE "Actions"
    /\ alias_state' = IF focus' = "Aliases" /\ is_none(alias_state) /\ Len(aliases) # 0 THEN Some(0) ELSE alias_state
    /\ UNCHANGED <<aliases, ui_mode, selected_opt, default_shell, cnfg_json, warning, term>>

(* Enter on "Edit alias" going to EditingSelect whatever the store holds *)
OptEdit_unguarded ==
    /\ ui_mode' = UiMode_EditingSelect
    /\ UNCHANGED <<aliases, alias_state, focus, selected_opt, default_shell, cnfg_json, warning, term>>

(* line 278: Enter on "Edit alias" *)
OptEdit ==
    /\ ui_mode' = IF Len(aliases) = 0 THEN UiMode_Main ELSE UiMode_EditingSelect
    /\ UNCHANGED <<aliases, alias_state, focus, selected_opt, default_shell, cnfg_json, warning, term>>

(* lines 279-285: Enter on "Remove alias" *)
OptRemove ==
    /\ ui_mode' = IF Len(aliases) = 0 THEN UiMode_Message("No aliases to remove") ELSE UiMode_RemovingSelect
    /\ UNCHANGED <<aliases, alias_state, focus, selected_opt, default_shell, cnfg_json, warning, term>>

(* lines 286-291: Enter on "Go to shell" leaves the UI and spawns the default shell; the loop blocks until ShellReturns *)
OptGoToShell ==
    /\ raw_mode' = FALSE
    /\ alt_screen' = FALSE
    /\ child' = Some([shell |-> default_shell, arg_c |-> None])
    /\ pc' = "wait"
    /\ UNCHANGED <<aliases, alias_state, focus, ui_mode, selected_opt, default_shell, cnfg_json, warning>>

(* Quit returning without disable_raw_mode *)
OptQuit_stays_raw ==
    /\ alt_screen' = FALSE
    /\ pc' = "exited"
    /\ UNCHANGED <<aliases, alias_state, focus, ui_mode, selected_opt, default_shell, cnfg_json, warning, child, raw_mode>>

(* lines 301-306: Enter on "Quit shell" restores the terminal and returns from main *)
OptQuit ==
    /\ raw_mode' = FALSE
    /\ alt_screen' = FALSE
    /\ pc' = "exited"
    /\ UNCHANGED <<aliases, alias_state, focus, ui_mode, selected_opt, default_shell, cnfg_json, warning, child>>

(* lines 275-309: Enter on the action menu; the Adding flow is entered only while the store has room under MaxAliases *)
ActionsEnter ==
    \/ /\ selected_opt = 0
       /\ Len(aliases) < MaxAliases
       /\ ui_mode' = UiMode_Adding(1, <<>>, <<>>, None)
       /\ UNCHANGED <<aliases, alias_state, focus, selected_opt, default_shell, cnfg_json, warning, term>>
    \/ /\ selected_opt = 1
       /\ OptEdit
    \/ /\ selected_opt = 2
       /\ OptRemove
    \/ /\ selected_opt = 3
       /\ OptGoToShell
    \/ /\ selected_opt = 4
       /\ OptQuit

(* a character bound to no alias raising a message instead of being dropped *)
ActionsChar_reports(c) ==
    IF is_some(position(aliases, c))
    THEN /\ run_alias(At(aliases, unwrap(position(aliases, c))).command)
         /\ UNCHANGED <<aliases, alias_state, focus, ui_mode, selected_opt, default_shell, cnfg_json, warning>>
    ELSE /\ ui_mode' = UiMode_Message("No alias bound")
         /\ UNCHANGED <<aliases, alias_state, focus, selected_opt, default_shell, cnfg_json, warning, term>>

(* lines 310-324: a character on the action menu triggers the alias bound to it *)
ActionsChar(c) ==
    IF is_some(position(aliases, c))
    THEN /\ run_alias(At(aliases, unwrap(position(aliases, c))).command)
         /\ UNCHANGED <<aliases, alias_state, focus, ui_mode, selected_opt, default_shell, cnfg_json, warning>>
    ELSE UNCHANGED vars

(* lines 268-327: UiMode::Main, Focus::Actions *)
MainActions(key) ==
    /\ ui_mode.tag = "Main"
    /\ focus = "Actions"
    /\ \/ /\ key.code = "Up"
          /\ selected_opt' = IF selected_opt = 0 THEN Len(options) - 1 ELSE selected_opt - 1
          /\ UNCHANGED <<aliases, alias_state, focus, ui_mode, default_shell, cnfg_json, warning, term>>
       \/ /\ key.code = "Down"
          /\ selected_opt' = (selected_opt + 1) % Len(options)
          /\ UNCHANGED <<aliases, alias_state, focus, ui_mode, default_shell, cnfg_json, warning, term>>
       \/ /\ key.code = "Enter"
          /\ ActionsEnter
       \/ /\ key.code = "Char"
          /\ ActionsChar(key.ch)
       \/ /\ key.code \notin {"Up", "Down", "Enter", "Char"}
          /\ UNCHANGED vars

(* lines 330-335, 393-398, 425-430: Up on the alias list *)
move_up == alias_state' = Some(IF unwrap_or(alias_state, 0) = 0 THEN Len(aliases) - 1 ELSE unwrap_or(alias_state, 0) - 1)

(* Down without the modulo of line 338: past the last alias instead of wrapping to the first *)
move_down_no_wrap == alias_state' = Some(unwrap_or(alias_state, 0) + 1)

(* lines 336-341, 399, 431-436: Down on the alias list *)
move_down == alias_state' = Some((unwrap_or(alias_state, 0) + 1) % Len(aliases))

(* the alias list answering keybind characters as the action menu does *)
MainAliases_keybinds(key) ==
    /\ ui_mode.tag = "Main"
    /\ focus = "Aliases"
    /\ \/ /\ key.code = "Up"
          /\ IF Len(aliases) # 0 THEN move_up ELSE UNCHANGED alias_state
          /\ UNCHANGED <<aliases, focus, ui_mode, selected_opt, default_shell, cnfg_json, warning, term>>
       \/ /\ key.code = "Down"
          /\ IF Len(aliases) # 0 THEN move_down ELSE UNCHANGED alias_state
          /\ UNCHANGED <<aliases, focus, ui_mode, selected_opt, default_shell, cnfg_json, warning, term>>
       \/ /\ key.code = "Enter"
          /\ IF is_none(alias_state) THEN UNCHANGED vars
             ELSE IF ~InRange(aliases, unwrap(alias_state)) THEN panic
             ELSE /\ run_alias(At(aliases, unwrap(alias_state)).command)
                  /\ UNCHANGED <<aliases, alias_state, focus, ui_mode, selected_opt, default_shell, cnfg_json, warning>>
       \/ /\ key.code = "Char"
          /\ ActionsChar(key.ch)
       \/ /\ key.code \notin {"Up", "Down", "Enter", "Char"}
          /\ UNCHANGED vars

(* lines 328-355: UiMode::Main, Focus::Aliases *)
MainAliases(key) ==
    /\ ui_mode.tag = "Main"
    /\ focus = "Aliases"
    /\ \/ /\ key.code = "Up"
          /\ IF Len(aliases) # 0 THEN move_up ELSE UNCHANGED alias_state
          /\ UNCHANGED <<aliases, focus, ui_mode, selected_opt, default_shell, cnfg_json, warning, term>>
       \/ /\ key.code = "Down"
          /\ IF Len(aliases) # 0 THEN move_down ELSE UNCHANGED alias_state
          /\ UNCHANGED <<aliases, focus, ui_mode, selected_opt, default_shell, cnfg_json, warning, term>>
       \/ /\ key.code = "Enter"
          /\ IF is_none(alias_state) THEN UNCHANGED vars
             ELSE IF ~InRange(aliases, unwrap(alias_state)) THEN panic
             ELSE /\ run_alias(At(aliases, unwrap(alias_state)).command)
                  /\ UNCHANGED <<aliases, alias_state, focus, ui_mode, selected_opt, default_shell, cnfg_json, warning>>
       \/ /\ key.code \notin {"Up", "Down", "Enter"}
          /\ UNCHANGED vars

(* finalize putting the new alias at the front of the store *)
finalize_inserts_front ==
    /\ aliases' = <<Alias(ui_mode.name, ui_mode.command, ui_mode.keybind)>> \o aliases
    /\ cnfg_json' = write_config(aliases', default_shell)
    /\ alias_state' = IF is_none(alias_state) THEN Some(0) ELSE Some(IF Len(aliases') = 0 THEN 0 ELSE Len(aliases') - 1)
    /\ ui_mode' = UiMode_Main
    /\ UNCHANGED <<focus, selected_opt, default_shell, warning, term>>

(* finalize selecting aliases.len() instead of aliases.len() - 1 *)
finalize_selects_len ==
    /\ aliases' = Append(aliases, Alias(ui_mode.name, ui_mode.command, ui_mode.keybind))
    /\ cnfg_json' = write_config(aliases', default_shell)
    /\ alias_state' = IF is_none(alias_state) THEN Some(0) ELSE Some(Len(aliases'))
    /\ ui_mode' = UiMode_Main
    /\ UNCHANGED <<focus, selected_opt, default_shell, warning, term>>

(* lines 364-375: Enter at step 3 finalizes the new alias *)
finalize ==
    /\ aliases' = Append(aliases, Alias(ui_mode.name, ui_mode.command, ui_mode.keybind))
    /\ cnfg_json' = write_config(aliases', default_shell)
    /\ alias_state' = IF is_none(alias_state) THEN Some(0) ELSE Some(IF Len(aliases') = 0 THEN 0 ELSE Len(aliases') - 1)
    /\ ui_mode' = UiMode_Main
    /\ UNCHANGED <<focus, selected_opt, default_shell, warning, term>>

(* the Esc arm keeping what was typed: the alias is pushed and saved as Enter at step 3 does *)
AddingEsc_saves ==
    /\ aliases' = Append(aliases, Alias(ui_mode.name, ui_mode.command, ui_mode.keybind))
    /\ cnfg_json' = write_config(aliases', default_shell)
    /\ alias_state' = IF is_none(alias_state) THEN Some(0) ELSE Some(Len(aliases') - 1)
    /\ ui_mode' = UiMode_Main
    /\ UNCHANGED <<focus, selected_opt, default_shell, warning, term>>

(* the Esc arm going one step back instead of leaving the flow *)
AddingEsc_steps_back ==
    /\ ui_mode' = IF ui_mode.step = 1 THEN UiMode_Main ELSE [ui_mode EXCEPT !.step = @ - 1]
    /\ UNCHANGED <<aliases, alias_state, focus, selected_opt, default_shell, cnfg_json, warning, term>>

(* line 360: Esc leaves the Adding flow *)
AddingEsc ==
    /\ ui_mode' = UiMode_Main
    /\ UNCHANGED <<aliases, alias_state, focus, selected_opt, default_shell, cnfg_json, warning, term>>

(* lines 358-389: UiMode::Adding; a character is typed into name or command only while the result stays in Typed, and Enter leaves a step only with a field in Texts *)
Adding(key) ==
    /\ ui_mode.tag = "Adding"
    /\ \/ /\ key.code = "Esc"
          /\ AddingEsc
       \/ /\ key.code = "Enter"
          /\ ui_mode.step = 1 => ui_mode.name \in Texts
          /\ ui_mode.step = 2 => ui_mode.command \in Texts
          /\ IF ui_mode.step = 1 THEN ui_mode' = [ui_mode EXCEPT !.step = 2] /\ UNCHANGED <<aliases, alias_state, focus, selected_opt, default_shell, cnfg_json, warning, term>>
             ELSE IF ui_mode.step = 2 THEN ui_mode' = [ui_mode EXCEPT !.step = 3] /\ UNCHANGED <<aliases, alias_state, focus, selected_opt, default_shell, cnfg_json, warning, term>>
             ELSE finalize
       \/ /\ key.code = "Backspace"
          /\ ui_mode' = IF ui_mode.step = 1 THEN [ui_mode EXCEPT !.name = pop(@)] ELSE IF ui_mode.step = 2 THEN [ui_mode EXCEPT !.command = pop(@)] ELSE ui_mode
          /\ UNCHANGED <<aliases, alias_state, focus, selected_opt, default_shell, cnfg_json, warning, term>>
       \/ /\ key.code = "Char"
          /\ ui_mode.step = 1 => push(ui_mode.name, key.ch) \in Typed
          /\ ui_mode.step = 2 => push(ui_mode.command, key.ch) \in Typed
          /\ ui_mode' = IF ui_mode.step = 1 THEN [ui_mode EXCEPT !.name = push(@, key.ch)] ELSE IF ui_mode.step = 2 THEN [ui_mode EXCEPT !.command = push(@, key.ch)] ELSE IF ui_mode.step = 3 THEN [ui_mode EXCEPT !.keybind = Some(key.ch)] ELSE ui_mode
          /\ UNCHANGED <<aliases, alias_state, focus, selected_opt, default_shell, cnfg_json, warning, term>>
       \/ /\ key.code \notin {"Esc", "Enter", "Backspace", "Char"}
          /\ UNCHANGED vars

(* lines 390-409: UiMode::EditingSelect *)
EditingSelect(key) ==
    /\ ui_mode.tag = "EditingSelect"
    /\ \/ /\ key.code = "Up"
          /\ IF Len(aliases) = 0 THEN UNCHANGED alias_state ELSE move_up
          /\ UNCHANGED <<aliases, focus, ui_mode, selected_opt, default_shell, cnfg_json, warning, term>>
       \/ /\ key.code = "Down"
          /\ IF Len(aliases) # 0 THEN move_down ELSE UNCHANGED alias_state
          /\ UNCHANGED <<aliases, focus, ui_mode, selected_opt, default_shell, cnfg_json, warning, term>>
       \/ /\ key.code = "Enter"
          /\ IF is_none(alias_state) THEN UNCHANGED vars
             ELSE IF ~InRange(aliases, unwrap(alias_state)) THEN panic
             ELSE /\ ui_mode' = UiMode_Editing(unwrap(alias_state), At(aliases, unwrap(alias_state)).command)
                  /\ UNCHANGED <<aliases, alias_state, focus, selected_opt, default_shell, cnfg_json, warning, term>>
       \/ /\ key.code = "Esc"
          /\ ui_mode' = UiMode_Main
          /\ UNCHANGED <<aliases, alias_state, focus, selected_opt, default_shell, cnfg_json, warning, term>>
       \/ /\ key.code \notin {"Up", "Down", "Enter", "Esc"}
          /\ UNCHANGED vars

(* set_command writing the name as well as the command *)
set_command_renames(v, index, command) == IF InRange(v, index) THEN [v EXCEPT ![index + 1].command = command, ![index + 1].name = command] ELSE v

(* line 414: aliases.get_mut(index), which skips an index out of range *)
set_command(v, index, command) == IF InRange(v, index) THEN [v EXCEPT ![index + 1].command = command] ELSE v

(* lines 413-417: Enter commits the buffer *)
commit_edit ==
    /\ aliases' = set_command(aliases, ui_mode.index, ui_mode.command)
    /\ cnfg_json' = write_config(aliases', default_shell)
    /\ ui_mode' = UiMode_Main
    /\ UNCHANGED <<alias_state, focus, selected_opt, default_shell, warning, term>>

(* lines 410-422: UiMode::Editing; a character is typed only while the buffer stays in Typed, and Enter commits only a buffer in Texts *)
Editing(key) ==
    /\ ui_mode.tag = "Editing"
    /\ \/ /\ key.code = "Esc"
          /\ ui_mode' = UiMode_Main
          /\ UNCHANGED <<aliases, alias_state, focus, selected_opt, default_shell, cnfg_json, warning, term>>
       \/ /\ key.code = "Enter"
          /\ ui_mode.command \in Texts
          /\ commit_edit
       \/ /\ key.code = "Backspace"
          /\ ui_mode' = [ui_mode EXCEPT !.command = pop(@)]
          /\ UNCHANGED <<aliases, alias_state, focus, selected_opt, default_shell, cnfg_json, warning, term>>
       \/ /\ key.code = "Char"
          /\ push(ui_mode.command, key.ch) \in Typed
          /\ ui_mode' = [ui_mode EXCEPT !.command = push(@, key.ch)]
          /\ UNCHANGED <<aliases, alias_state, focus, selected_opt, default_shell, cnfg_json, warning, term>>
       \/ /\ key.code \notin {"Esc", "Enter", "Backspace", "Char"}
          /\ UNCHANGED vars

(* remove_selected with the cursor reset of line 442 left out *)
remove_selected_keeps_cursor ==
    /\ aliases' = remove(aliases, unwrap(alias_state))
    /\ cnfg_json' = write_config(aliases', default_shell)
    /\ ui_mode' = UiMode_Main
    /\ UNCHANGED <<alias_state, focus, selected_opt, default_shell, warning, term>>

(* lines 437-445: Enter removes the selected alias *)
remove_selected ==
    /\ aliases' = remove(aliases, unwrap(alias_state))
    /\ cnfg_json' = write_config(aliases', default_shell)
    /\ alias_state' = IF Len(aliases') = 0 THEN None ELSE Some(0)
    /\ ui_mode' = UiMode_Main
    /\ UNCHANGED <<focus, selected_opt, default_shell, warning, term>>

(* lines 423-449: UiMode::RemovingSelect *)
RemovingSelect(key) ==
    /\ ui_mode.tag = "RemovingSelect"
    /\ \/ /\ key.code = "Up"
          /\ IF Len(aliases) = 0 THEN ui_mode' = UiMode_Main /\ UNCHANGED alias_state ELSE move_up /\ UNCHANGED ui_mode
          /\ UNCHANGED <<aliases, focus, selected_opt, default_shell, cnfg_json, warning, term>>
       \/ /\ key.code = "Down"
          /\ IF Len(aliases) # 0 THEN move_down ELSE UNCHANGED alias_state
          /\ UNCHANGED <<aliases, focus, ui_mode, selected_opt, default_shell, cnfg_json, warning, term>>
       \/ /\ key.code = "Enter"
          /\ IF is_none(alias_state) THEN UNCHANGED vars
             ELSE IF ~InRange(aliases, unwrap(alias_state)) THEN panic
             ELSE remove_selected
       \/ /\ key.code = "Esc"
          /\ ui_mode' = UiMode_Main
          /\ UNCHANGED <<aliases, alias_state, focus, selected_opt, default_shell, cnfg_json, warning, term>>
       \/ /\ key.code \notin {"Up", "Down", "Enter", "Esc"}
          /\ UNCHANGED vars

(* lines 450-453: UiMode::Message *)
Message(key) ==
    /\ ui_mode.tag = "Message"
    /\ ui_mode' = UiMode_Main
    /\ UNCHANGED <<aliases, alias_state, focus, selected_opt, default_shell, cnfg_json, warning, term>>

(* lines 246-455: one key event read at line 244 *)
KeyEvent(key) ==
    /\ pc = "read"
    /\ UNCHANGED boot
    /\ IF key.code = "Tab" THEN KeyTab
       ELSE \/ MainActions(key)
            \/ MainAliases(key)
            \/ Adding(key)
            \/ EditingSelect(key)
            \/ Editing(key)
            \/ RemovingSelect(key)
            \/ Message(key)

(* a resize sending the focus back to the action menu *)
ResizeEvent_resets_focus(w, h) ==
    /\ pc = "read"
    /\ warning' = TooSmall(w, h)
    /\ focus' = "Actions"
    /\ UNCHANGED <<aliases, alias_state, ui_mode, selected_opt, default_shell, cnfg_json, term, boot>>

(* line 456: a resize event; the next draw sees the new size *)
ResizeEvent(w, h) ==
    /\ pc = "read"
    /\ warning' = TooSmall(w, h)
    /\ UNCHANGED <<aliases, alias_state, focus, ui_mode, selected_opt, default_shell, cnfg_json, term, boot>>

(* line 457: any other event (mouse, focus, paste) *)
OtherEvent ==
    /\ pc = "read"
    /\ UNCHANGED vars

(* lines 95-104: Command::status returns (exit status or spawn error), the result is printed, raw mode is enabled for the key wait *)
StatusReturns(outcome) ==
    /\ pc = "status"
    /\ child' = None
    /\ raw_mode' = TRUE
    /\ pc' = "anykey"
    /\ UNCHANGED <<aliases, alias_state, focus, ui_mode, selected_opt, default_shell, cnfg_json, warning, alt_screen, boot>>

(* lines 105, 320-322 (348-350): any event ends the wait; the UI is re-entered *)
AnyKeyReturns(resized, w, h) ==
    /\ pc = "anykey"
    /\ alt_screen' = TRUE
    /\ raw_mode' = TRUE
    /\ pc' = "read"
    /\ warning' = IF resized THEN TooSmall(w, h) ELSE warning
    /\ UNCHANGED <<aliases, alias_state, focus, ui_mode, selected_opt, default_shell, cnfg_json, child, boot>>

(* a failed spawn going back to the loop without re-entering the UI *)
ShellReturns_failure_skips_resume(outcome) ==
    /\ pc = "wait"
    /\ child' = None
    /\ alt_screen' = (outcome # "spawn_failed")
    /\ raw_mode' = (outcome # "spawn_failed")
    /\ pc' = "read"
    /\ UNCHANGED <<aliases, alias_state, focus, ui_mode, selected_opt, default_shell, cnfg_json, warning, boot>>

(* lines 291-299: the interactive shell ends (or could not be spawned); the UI is re-entered *)
ShellReturns(outcome) ==
    /\ pc = "wait"
    /\ child' = None
    /\ alt_screen' = TRUE
    /\ raw_mode' = TRUE
    /\ pc' = "read"
    /\ UNCHANGED <<aliases, alias_state, focus, ui_mode, selected_opt, default_shell, cnfg_json, warning, boot>>

Outcomes == {"spawn_failed", "exit_zero", "exit_nonzero"}

Next ==
    \/ \E key \in KeyCodes : KeyEvent(key)
    \/ \E w \in Widths, h \in Heights : ResizeEvent(w, h)
    \/ OtherEvent
    \/ \E outcome \in Outcomes : StatusReturns(outcome)
    \/ \E resized \in BOOLEAN, w \in Widths, h \in Heights : AnyKeyReturns(resized, w, h)
    \/ \E outcome \in Outcomes : ShellReturns(outcome)

Spec == Init /\ [][Next]_vars

(* ---- the process from before main: start-up as a step, and a later run of the program on the file the last one left ---- *)

(* the memory of a process that has not run main yet *)
NotStarted ==
    /\ aliases = <<>>
    /\ alias_state = None
    /\ focus = "Actions"
    /\ ui_mode = UiMode_Main
    /\ selected_opt = 0
    /\ default_shell = ""
    /\ warning = FALSE
    /\ child = None
    /\ raw_mode = FALSE
    /\ alt_screen = FALSE

InitBoot == \E file \in Files, env_shell \in EnvShells :
    /\ boot = Some([exists |-> file.exists, env_shell |-> env_shell])
    /\ cnfg_json = file.content
    /\ pc = "start"
    /\ NotStarted

(* main, lines 109-138: the state Init describes, reached from the config file and the environment a process finds; the map is visited in the order `order` *)
main_start(file, env_shell, w, h, order) ==
    /\ aliases' = load_aliases(ensure_config(file, env_shell).aliases, order)
    /\ default_shell' = ensure_config(file, env_shell).default_shell
    /\ cnfg_json' = ensure_config_file(file)
    /\ alias_state' = IF Len(aliases') # 0 THEN Some(0) ELSE None
    /\ focus' = "Actions"
    /\ ui_mode' = UiMode_Main
    /\ selected_opt' = 0
    /\ warning' = TooSmall(w, h)
    /\ pc' = "read"
    /\ child' = None
    /\ raw_mode' = TRUE
    /\ alt_screen' = TRUE
    /\ boot' = None

(* the first run of the program *)
Startup == pc = "start" /\ \E w \in Widths, h \in Heights : LET file == [exists |-> unwrap(boot).exists, content |-> cnfg_json] IN \E order \in Orders(DOMAIN ensure_config(file, unwrap(boot).env_shell).aliases) :
    main_start(file, unwrap(boot).env_shell, w, h, order)

(* the program is run again after it has exited (line 305): a new process starts on the config file as it was left *)
Restart == pc = "exited" /\ \E env_shell \in EnvShells, w \in Widths, h \in Heights : LET file == [exists |-> TRUE, content |-> cnfg_json] IN \E order \in Orders(DOMAIN ensure_config(file, env_shell).aliases) :
    main_start(file, env_shell, w, h, order)

NextBoot ==
    \/ Startup
    \/ Restart
    \/ Next

SpecBoot == InitBoot /\ [][NextBoot]_vars

(***************************************************************************)
(* Properties                                                              *)
(***************************************************************************)

(* the steps the properties speak about *)
AnyKey == \E key \in KeyCodes : KeyEvent(key)
AddCommit == ui_mode.tag = "Adding" /\ ui_mode.step = 3 /\ KeyEvent(Key("Enter"))
EditCommit == ui_mode.tag = "Editing" /\ KeyEvent(Key("Enter"))
RemoveCommit == ui_mode.tag = "RemovingSelect" /\ KeyEvent(Key("Enter"))

(* C1: in every reachable state the alias cursor is None exactly when the store is empty, and otherwise Some(i) with 0 <= i < number of aliases *)
C1_CursorInvariant ==
    /\ is_none(alias_state) <=> Len(aliases) = 0
    /\ is_some(alias_state) => unwrap(alias_state) \in 0..(Len(aliases) - 1)

(* C1 witness: an add on a non-empty store has moved the cursor to the tail, with the store full *)
C1_Witness ==
    /\ Len(aliases) = MaxAliases
    /\ alias_state = Some(MaxAliases - 1)
    /\ cnfg_json = write_config(aliases, default_shell)
    /\ \E i, j \in 1..Len(aliases) : i # j /\ aliases[i].name = aliases[j].name

(* C2: Tab toggles the focus in Main mode and changes nothing at all in any other mode *)
C2_TabOnlyInMain == [][KeyEvent(Key("Tab")) => IF ui_mode.tag = "Main" THEN focus' # focus ELSE UNCHANGED vars]_vars

(* the alias mapping of a config holds exactly one entry per alias of the store *)
Mirrors(map, v) ==
    /\ DOMAIN map = {v[i].name : i \in 1..Len(v)}
    /\ \A i \in 1..Len(v) : map[v[i].name] = AliasEntry(v[i].command, IF is_none(v[i].keybind) THEN None ELSE Some(<<unwrap(v[i].keybind)>>))

(* C3: every committed add, edit or remove writes the config in the same step, and the alias mapping written holds one entry for every alias of the store and no other *)
C3_ConfigMirrorsStore == [][(AddCommit \/ EditCommit \/ RemoveCommit) => (is_some(cnfg_json') /\ Mirrors(unwrap(cnfg_json').aliases, aliases'))]_vars

(* C4: no out-of-range access happens (the process never panics on an index), the cursor is in range wherever the code indexes the store by it, and in Editing the index is in range and still names the alias whose command was loaded into the buffer *)
C4_NoOutOfRangeAccess ==
    /\ [](pc # "panic")
    /\ []((pc = "read" /\ is_some(alias_state) /\ (ui_mode.tag \in {"EditingSelect", "RemovingSelect"} \/ (ui_mode.tag = "Main" /\ focus = "Aliases"))) => unwrap(alias_state) < Len(aliases))
    /\ [](\A c \in Chars : is_some(position(aliases, c)) => unwrap(position(aliases, c)) < Len(aliases))
    /\ [](ui_mode.tag = "Editing" => ui_mode.index < Len(aliases))
    /\ [][(ui_mode.tag # "Editing" /\ ui_mode'.tag = "Editing") => (ui_mode'.index < Len(aliases') /\ ui_mode'.index = unwrap(alias_state) /\ ui_mode'.command = At(aliases', ui_mode'.index).command /\ aliases' = aliases)]_vars
    /\ [][(ui_mode.tag = "Editing" /\ ui_mode'.tag = "Editing") => (ui_mode'.index = ui_mode.index /\ aliases' = aliases)]_vars

(* C4 witness: Editing the second of two aliases, the buffer already changed *)
C4_Witness ==
    /\ ui_mode.tag = "Editing"
    /\ ui_mode.index = 1
    /\ Len(aliases) = 2
    /\ ui_mode.command # At(aliases, 1).command

(* C5: in Message mode every key press, Tab included, leaves the mode Main *)
C5_AnyKeyDismissesMessage == [][(ui_mode.tag = "Message" /\ AnyKey) => ui_mode'.tag = "Main"]_vars

(* C6: no mode is a trap: in every state outside Main the loop is waiting for an event and an Esc press is accepted and yields Main; every Esc press outside Main yields Main in that one step; the process never panics, and it leaves the loop only from Main by Enter on "Quit shell" *)
C6_NoModeIsATrap ==
    /\ [](pc # "panic")
    /\ [](ui_mode.tag # "Main" => (pc = "read" /\ ENABLED (KeyEvent(Key("Esc")) /\ ui_mode' = UiMode_Main)))
    /\ [][(ui_mode.tag # "Main" /\ KeyEvent(Key("Esc"))) => (ui_mode' = UiMode_Main /\ pc' = "read")]_vars
    /\ [][(pc # "exited" /\ pc' = "exited") => (ui_mode.tag = "Main" /\ focus = "Actions" /\ At(options, selected_opt) = "Quit shell" /\ KeyEvent(Key("Enter")))]_vars

(* C6 witness: deep in a flow (Adding at the keybind step with text typed, focus switched away) where Esc is accepted *)
C6_Witness ==
    /\ ui_mode.tag = "Adding"
    /\ ui_mode.step = 3
    /\ ui_mode.name # <<>>
    /\ focus = "Aliases"
    /\ Len(aliases) > 0
    /\ ENABLED (KeyEvent(Key("Esc")) /\ ui_mode' = UiMode_Main)

(* C7: while the last draw showed only the too-small warning, no key event changes the mode, the focus, a cursor, the store or the config file *)
C7_NoKeysWhileTooSmall == [][(warning /\ AnyKey) => UNCHANGED <<ui_mode, focus, alias_state, selected_opt, aliases, cnfg_json>>]_vars

(* the first alias, in store order, whose keybind is c (1-based) *)
FirstWithKeybind(c) == CHOOSE i \in 1..Len(aliases) : aliases[i].keybind = <<c>> /\ \A j \in 1..(i - 1) : aliases[j].keybind # <<c>>

(* a Char(c) press on the action menu while some alias is bound to c *)
KeybindPress(c) == ui_mode.tag = "Main" /\ focus = "Actions" /\ KeyEvent(KeyChar(c)) /\ \E i \in 1..Len(aliases) : aliases[i].keybind = <<c>>

(* C8: in Main with Actions focus a character bound to at least one alias launches exactly one process, default_shell -c <command of the first alias in store order bound to it>; when it has ended and a key was pressed the loop is back in Main, and store, cursor and config file are unchanged throughout *)
C8_KeybindRunsFirstMatch ==
    /\ [][\A c \in Chars : KeybindPress(c) => (child' = Some([shell |-> default_shell, arg_c |-> Some(aliases[FirstWithKeybind(c)].command)]) /\ pc' = "status" /\ UNCHANGED <<aliases, alias_state, cnfg_json, ui_mode, default_shell>>)]_vars
    /\ [][pc = "status" => (pc' = "anykey" /\ child' = None /\ UNCHANGED <<aliases, alias_state, cnfg_json, ui_mode>>)]_vars
    /\ [][pc = "anykey" => (pc' = "read" /\ child' = None /\ ui_mode' = UiMode_Main /\ UNCHANGED <<aliases, alias_state, cnfg_json>>)]_vars

(* C8 witness: two aliases share a keybind and differ in command; the key was pressed on the action menu and the first one's command is running *)
C8_Witness ==
    /\ pc = "status"
    /\ focus = "Actions"
    /\ Len(aliases) = 2
    /\ is_some(aliases[1].keybind)
    /\ aliases[1].keybind = aliases[2].keybind
    /\ aliases[1].command # aliases[2].command
    /\ alias_state = Some(1)
    /\ child = Some([shell |-> default_shell, arg_c |-> Some(aliases[1].command)])

(* C9: Enter at Adding step 3 appends one alias made of the typed name, command and keybind at the tail, leaves the earlier aliases as they were, writes the config (which then holds the new alias under its name), puts the cursor on the new alias and goes to Main *)
C9_AddAppendsAtTail == [][AddCommit =>
    (/\ Len(aliases') = Len(aliases) + 1
     /\ \A i \in 1..Len(aliases) : aliases'[i] = aliases[i]
     /\ aliases'[Len(aliases) + 1] = [name |-> ui_mode.name, command |-> ui_mode.command, keybind |-> ui_mode.keybind]
     /\ is_some(cnfg_json')
     /\ unwrap(cnfg_json').default_shell = default_shell
     /\ DOMAIN unwrap(cnfg_json').aliases = {aliases'[i].name : i \in 1..Len(aliases')}
     /\ unwrap(cnfg_json').aliases[ui_mode.name] = [command |-> ui_mode.command, keybind |-> IF ui_mode.keybind = <<>> THEN <<>> ELSE <<ui_mode.keybind>>]
     /\ alias_state' = <<Len(aliases') - 1>>
     /\ ui_mode' = UiMode_Main)]_vars

(* C9 witness: Adding at step 3 over a store of one alias, name and keybind typed, where Enter commits a second alias *)
C9_Witness ==
    /\ ui_mode.tag = "Adding"
    /\ ui_mode.step = 3
    /\ ui_mode.name # <<>>
    /\ ui_mode.keybind # <<>>
    /\ Len(aliases) = 1
    /\ aliases[1].name # ui_mode.name
    /\ ENABLED (KeyEvent(Key("Enter")) /\ Len(aliases') = 2 /\ alias_state' = <<1>>)

(* C10: Enter in RemovingSelect deletes the alias under the cursor and no other, keeps the order of the rest, writes the config (whose mapping then holds the names left, none when the store is empty), resets the cursor to Some(0), or None for an empty store, and goes to Main *)
C10_RemoveDeletesSelected == [][(RemoveCommit /\ is_some(alias_state)) =>
    (/\ Len(aliases') = Len(aliases) - 1
     /\ \A i \in 1..Len(aliases') : aliases'[i] = IF i <= unwrap(alias_state) THEN aliases[i] ELSE aliases[i + 1]
     /\ is_some(cnfg_json')
     /\ unwrap(cnfg_json').default_shell = default_shell
     /\ DOMAIN unwrap(cnfg_json').aliases = {aliases'[i].name : i \in 1..Len(aliases')}
     /\ Len(aliases') = 0 => (alias_state' = <<>> /\ aliases' = <<>> /\ DOMAIN unwrap(cnfg_json').aliases = {})
     /\ Len(aliases') # 0 => alias_state' = <<0>>
     /\ ui_mode' = UiMode_Main)]_vars

(* C10 witness: RemovingSelect with the cursor on the first of two different aliases, where Enter leaves exactly the second *)
C10_Witness ==
    /\ ui_mode.tag = "RemovingSelect"
    /\ Len(aliases) = 2
    /\ aliases[1] # aliases[2]
    /\ alias_state = <<0>>
    /\ ENABLED (KeyEvent(Key("Enter")) /\ aliases' = <<aliases[2]>> /\ alias_state' = <<0>>)

(* the file holds what a save of store v with shell leaves: one entry per name, that of the last alias of v with the name *)
Saved(file, v, shell) ==
    /\ is_some(file)
    /\ unwrap(file).default_shell = shell
    /\ DOMAIN unwrap(file).aliases = {v[i].name : i \in 1..Len(v)}
    /\ \A i \in 1..Len(v) : (\A j \in (i + 1)..Len(v) : v[j].name # v[i].name) => unwrap(file).aliases[v[i].name] = AliasEntry(v[i].command, IF is_none(v[i].keybind) THEN None ELSE Some(<<unwrap(v[i].keybind)>>))

(* C11: Enter in Editing{index, command} sets the command of the alias at index to the buffer, whatever the buffer (the empty one too), leaves its name and keybind, every other alias, the length and the order of the store and the cursor as they were, saves the store to the config file, and goes to Main *)
C11_EditReplacesOnlyCommand == [][EditCommit =>
    (/\ ui_mode.index \in 0..(Len(aliases) - 1)
     /\ Len(aliases') = Len(aliases)
     /\ \A i \in 1..Len(aliases) : aliases'[i] = IF i = ui_mode.index + 1 THEN Alias(aliases[i].name, ui_mode.command, aliases[i].keybind) ELSE aliases[i]
     /\ alias_state' = alias_state
     /\ Saved(cnfg_json', aliases', default_shell)
     /\ ui_mode' = UiMode_Main)]_vars

(* C11 witness: Editing the second of two aliases with an emptied buffer, where Enter blanks that alias's command and nothing else *)
C11_Witness ==
    /\ ui_mode.tag = "Editing"
    /\ ui_mode.index = 1
    /\ ui_mode.command = <<>>
    /\ Len(aliases) = 2
    /\ aliases[2].command # <<>>
    /\ aliases[2].name # <<>>
    /\ ENABLED (KeyEvent(Key("Enter")) /\ aliases' = <<aliases[1], Alias(aliases[2].name, <<>>, aliases[2].keybind)>> /\ ui_mode' = UiMode_Main)

(* a step of the loop taken while an Adding or an Editing flow is open that is not its committing Enter *)
InFlowNoCommit == ui_mode.tag \in {"Adding", "Editing"} /\ ~AddCommit /\ ~EditCommit

(* C12: Esc in Adding or Editing goes to Main with store, cursor and config file untouched, and no step of an open flow other than its committing Enter touches store or config file, so both are then what they were when the flow was entered; every entry into Adding starts at step 1 with empty name, empty command and no keybind, and every entry into Editing starts on the alias under the cursor with a buffer equal to its stored command *)
C12_EscDiscardsInput ==
    /\ [][(ui_mode.tag \in {"Adding", "Editing"} /\ KeyEvent(Key("Esc"))) => (ui_mode' = UiMode_Main /\ UNCHANGED <<aliases, alias_state, cnfg_json>>)]_vars
    /\ [][InFlowNoCommit => UNCHANGED <<aliases, cnfg_json>>]_vars
    /\ [][(ui_mode.tag # "Adding" /\ ui_mode'.tag = "Adding") => ui_mode' = UiMode_Adding(1, <<>>, <<>>, None)]_vars
    /\ [][(ui_mode.tag # "Editing" /\ ui_mode'.tag = "Editing") => (is_some(alias_state) /\ ui_mode' = UiMode_Editing(unwrap(alias_state), At(aliases, unwrap(alias_state)).command))]_vars

(* C12 witness: Adding at step 3 with a name, a command and a keybind typed over a store of one alias, where Esc goes to Main and leaves store and config file as they are *)
C12_Witness ==
    /\ ui_mode.tag = "Adding"
    /\ ui_mode.step = 3
    /\ ui_mode.name # <<>>
    /\ ui_mode.command # <<>>
    /\ ui_mode.keybind # <<>>
    /\ Len(aliases) = 1
    /\ ENABLED (KeyEvent(Key("Esc")) /\ ui_mode' = UiMode_Main /\ UNCHANGED <<aliases, cnfg_json>>)

(* the modes in which Up and Down move the alias cursor *)
OnAliasList == (ui_mode.tag = "Main" /\ focus = "Aliases") \/ ui_mode.tag \in {"EditingSelect", "RemovingSelect"}

(* C13: in Main with Aliases focus, in EditingSelect and in RemovingSelect, over a store of N >= 1 aliases Up moves the cursor from 0 to N-1 and from any other i to i-1, Down moves it from N-1 to 0 and from any other i to i+1; over an empty store both leave the cursor None; neither changes the mode or the store *)
C13_NavigationWraps ==
    /\ [][(OnAliasList /\ KeyEvent(Key("Up"))) =>
            (/\ UNCHANGED <<ui_mode, aliases>>
             /\ Len(aliases) = 0 => (alias_state = <<>> /\ alias_state' = <<>>)
             /\ Len(aliases) >= 1 => (alias_state # <<>> /\ alias_state' = <<IF alias_state[1] = 0 THEN Len(aliases) - 1 ELSE alias_state[1] - 1>>))]_vars
    /\ [][(OnAliasList /\ KeyEvent(Key("Down"))) =>
            (/\ UNCHANGED <<ui_mode, aliases>>
             /\ Len(aliases) = 0 => (alias_state = <<>> /\ alias_state' = <<>>)
             /\ Len(aliases) >= 1 => (alias_state # <<>> /\ alias_state' = <<IF alias_state[1] = Len(aliases) - 1 THEN 0 ELSE alias_state[1] + 1>>))]_vars

(* C13 witness: RemovingSelect with the cursor on the first of two aliases, where Up wraps to the last and the mode stays *)
C13_Witness ==
    /\ ui_mode.tag = "RemovingSelect"
    /\ Len(aliases) = 2
    /\ alias_state = <<0>>
    /\ ENABLED (KeyEvent(Key("Up")) /\ alias_state' = <<1>> /\ ui_mode' = ui_mode)

(* Enter on entry i of the action menu *)
MenuEnter(i) == ui_mode.tag = "Main" /\ focus = "Actions" /\ selected_opt = i /\ KeyEvent(Key("Enter"))

(* C14: on the action menu, Enter on "Edit alias" over an empty store changes nothing and stays in Main, Enter on "Remove alias" over an empty store goes to Message("No aliases to remove"); over a non-empty store they go to EditingSelect and RemovingSelect; and in every reachable state with EditingSelect, Editing or RemovingSelect active the store is non-empty *)
C14_EmptyStoreGuards ==
    /\ [][(MenuEnter(1) /\ Len(aliases) = 0) => UNCHANGED vars]_vars
    /\ [][(MenuEnter(2) /\ Len(aliases) = 0) => (ui_mode' = UiMode_Message("No aliases to remove") /\ UNCHANGED <<aliases, alias_state, cnfg_json>>)]_vars
    /\ [][(MenuEnter(1) /\ Len(aliases) # 0) => ui_mode' = UiMode_EditingSelect]_vars
    /\ [][(MenuEnter(2) /\ Len(aliases) # 0) => ui_mode' = UiMode_RemovingSelect]_vars
    /\ [](ui_mode.tag \in {"EditingSelect", "Editing", "RemovingSelect"} => Len(aliases) # 0)

(* C14 witness: the action menu on "Remove alias" over an empty store, where Enter raises the message *)
C14_Witness ==
    /\ ui_mode.tag = "Main"
    /\ focus = "Actions"
    /\ selected_opt = 2
    /\ aliases = <<>>
    /\ pc = "read"
    /\ ENABLED (KeyEvent(Key("Enter")) /\ ui_mode' = UiMode_Message("No aliases to remove"))

(* an external process is being run: alias command (pc = "status") or interactive shell (pc = "wait") *)
Running == pc \in {"status", "wait"}

(* C15: while an external process runs (alias by keybind, alias by Enter on the alias list, Go to shell) raw mode is off and the alternate screen is left; whatever the outcome (exit zero, exit non-zero, spawn failure) the run can end, and when it has ended, and for an alias a key was pressed, the loop waits for the next menu event in Main; and whenever the loop waits for a menu event the terminal is in raw mode and on the alternate screen with no process running *)
C15_SuspendAndResume ==
    /\ [](Running <=> is_some(child))
    /\ [](Running => (~raw_mode /\ ~alt_screen))
    /\ [](pc = "status" => \A o \in Outcomes : ENABLED StatusReturns(o))
    /\ [](pc = "wait" => \A o \in Outcomes : ENABLED ShellReturns(o))
    /\ [][pc = "status" => pc' = "anykey"]_vars
    /\ [][(pc \in {"anykey", "wait"}) => (pc' = "read" /\ ui_mode' = UiMode_Main)]_vars
    /\ [](pc = "read" => (raw_mode /\ alt_screen /\ is_none(child)))

(* C15 witness: the interactive shell of Go to shell is out, the terminal handed over, where a failed spawn brings the loop back to the menu with raw mode on and the alternate screen entered *)
C15_Witness ==
    /\ pc = "wait"
    /\ is_some(child)
    /\ ~raw_mode
    /\ ~alt_screen
    /\ ENABLED (ShellReturns("spawn_failed") /\ pc' = "read" /\ raw_mode' /\ alt_screen' /\ ui_mode' = UiMode_Main)

(* C16: the process ends only by Enter on "Quit shell" (entry 4 of the action menu) in Main with Actions focus: no other step of any mode ends it and no step panics; and once it has ended raw mode is disabled and the alternate screen is left *)
C16_ExitOnlyByQuit ==
    /\ [][(pc # "exited" /\ pc' = "exited") => MenuEnter(4)]_vars
    /\ [][MenuEnter(4) => pc' = "exited"]_vars
    /\ [](pc # "panic")
    /\ [](pc = "exited" => (~raw_mode /\ ~alt_screen /\ ui_mode.tag = "Main" /\ focus = "Actions" /\ selected_opt = 4))

(* C16 witness: the process has ended by Quit with aliases in the store, the terminal restored *)
C16_Witness ==
    /\ pc = "exited"
    /\ Len(aliases) = 2
    /\ ~raw_mode
    /\ ~alt_screen

(* C17: when the program is run again after Quit, the store it loads from the config file is the store the last run ended with: the same aliases in the same (insertion) order, so that a keybind shared by two aliases still runs the one added first *)
C17_RestartKeepsOrder == [][Restart => aliases' = aliases]_vars

(* the program starts and finds no config file *)
StartupWithoutFile == pc = "start" /\ ~unwrap(boot).exists /\ Startup

(* C18: when the config file does not exist at start, the program writes at once a config with an empty alias mapping and, as default shell, the value of the SHELL environment variable, takes that shell as its own, and starts in Main with Actions focus, an empty store and no cursor *)
C18_MissingFileDefaults == [][StartupWithoutFile =>
    (/\ is_some(unwrap(boot).env_shell) => default_shell' = unwrap(unwrap(boot).env_shell)
     /\ cnfg_json' = Some(ConfigFile(EmptyMap, default_shell'))
     /\ aliases' = <<>>
     /\ alias_state' = None
     /\ ui_mode' = UiMode_Main
     /\ focus' = "Actions"
     /\ pc' = "read")]_vars

(* C19: for every content of the config file, loading it and saving it again, done twice in a row with nothing changed in between, writes the same text both times *)
C19_SaveLoadIdempotent == is_some(cnfg_json) => \A first \in load_then_save(unwrap(cnfg_json)) : \A second \in load_then_save(from_str(first)) : second = first

(* string s without its last character, s itself when it is empty *)
ButLast(s) == IF s = <<>> THEN <<>> ELSE [i \in 1..(Len(s) - 1) |-> s[i]]

(* C20: in Adding the step is 1, 2 or 3, and a step of the loop that stays in Adding changes it only by Enter, from 1 to 2 or from 2 to 3, with the fields kept; a character is appended to the name at step 1, to the command at step 2, and becomes the keybind (replacing any earlier one) at step 3; Backspace drops the last character of the name at step 1, of the command at step 2, and does nothing at step 3; characters and Backspace change neither step, store, cursor nor config file *)
C20_AddingSteps ==
    /\ [](ui_mode.tag = "Adding" => ui_mode.step \in {1, 2, 3})
    /\ [][(ui_mode.tag = "Adding" /\ ui_mode'.tag = "Adding" /\ ui_mode'.step # ui_mode.step) => (KeyEvent(Key("Enter")) /\ ui_mode.step \in {1, 2} /\ ui_mode' = [ui_mode EXCEPT !.step = @ + 1])]_vars
    /\ [][\A c \in Chars : (ui_mode.tag = "Adding" /\ KeyEvent(KeyChar(c))) =>
            (/\ ui_mode.step = 1 => ui_mode' = [ui_mode EXCEPT !.name = @ \o <<c>>]
             /\ ui_mode.step = 2 => ui_mode' = [ui_mode EXCEPT !.command = @ \o <<c>>]
             /\ ui_mode.step = 3 => ui_mode' = [ui_mode EXCEPT !.keybind = <<c>>]
             /\ UNCHANGED <<aliases, alias_state, cnfg_json>>)]_vars
    /\ [][(ui_mode.tag = "Adding" /\ KeyEvent(Key("Backspace"))) =>
            (/\ ui_mode.step = 1 => ui_mode' = [ui_mode EXCEPT !.name = ButLast(@)]
             /\ ui_mode.step = 2 => ui_mode' = [ui_mode EXCEPT !.command = ButLast(@)]
             /\ ui_mode.step = 3 => ui_mode' = ui_mode
             /\ UNCHANGED <<aliases, alias_state, cnfg_json>>)]_vars

(* C20 witness: Adding at step 2 with a name entered and two characters of command typed, where Backspace leaves the first character and the step stays 2 *)
C20_Witness ==
    /\ ui_mode.tag = "Adding"
    /\ ui_mode.step = 2
    /\ ui_mode.name = <<"a">>
    /\ ui_mode.command = <<"a", "b">>
    /\ ENABLED (KeyEvent(Key("Backspace")) /\ ui_mode' = UiMode_Adding(2, <<"a">>, <<"a">>, ui_mode.keybind))

(* a Char(c) press on the action menu while no alias is bound to c *)
UnboundPress(c) == ui_mode.tag = "Main" /\ focus = "Actions" /\ KeyEvent(KeyChar(c)) /\ \A i \in 1..Len(aliases) : aliases[i].keybind # <<c>>

(* C21: in Main with Actions focus a character that is the keybind of no alias does nothing: no process is launched, no Message is raised, and mode, focus, both cursors, store, config file and terminal stay as they are *)
C21_UnboundCharIsNoOp == [][\A c \in Chars : UnboundPress(c) => UNCHANGED vars]_vars

(* C21 witness: the action menu over a store of two aliases, one bound to b and none to a, where pressing a is taken and changes nothing *)
C21_Witness ==
    /\ ui_mode.tag = "Main"
    /\ focus = "Actions"
    /\ Len(aliases) = 2
    /\ \E i \in 1..2 : aliases[i].keybind = <<"b">>
    /\ \A i \in 1..2 : aliases[i].keybind # <<"a">>
    /\ ENABLED (KeyEvent(KeyChar("a")) /\ UNCHANGED vars)

(* everything the program holds or has written: all of the state but the size of the terminal, which the draw reads *)
program_state == <<aliases, alias_state, focus, ui_mode, selected_opt, default_shell, cnfg_json, pc, child, raw_mode, alt_screen, boot>>

Launch == is_none(child) /\ is_some(child')

(* Enter on the alias list of Main with an alias selected *)
ListEnter == ui_mode.tag = "Main" /\ focus = "Aliases" /\ is_some(alias_state) /\ KeyEvent(Key("Enter"))

(* C23: a process is launched only by a key read in Main: Enter on "Go to shell" or a character bound to an alias with Actions focus, or Enter with Aliases focus and an alias selected, which runs that alias; no key read in Adding, EditingSelect, Editing, RemovingSelect or Message launches one, a keybind character typed into a buffer included; and with Aliases focus a character does nothing *)
C23_LaunchOnlyFromMain ==
    /\ [][Launch => (ui_mode.tag = "Main" /\ (MenuEnter(3) \/ ListEnter \/ \E c \in Chars : KeybindPress(c)))]_vars
    /\ [][ListEnter => child' = Some([shell |-> default_shell, arg_c |-> Some(aliases[alias_state[1] + 1].command)])]_vars
    /\ [][(ui_mode.tag # "Main" /\ AnyKey) => (is_none(child') /\ pc' = "read")]_vars
    /\ [][\A c \in Chars : (ui_mode.tag = "Main" /\ focus = "Aliases" /\ KeyEvent(KeyChar(c))) => UNCHANGED vars]_vars

(* C23 witness: Adding at step 1 with an empty name over a store holding an alias bound to a, where typing a goes into the name and launches nothing *)
C23_Witness ==
    /\ ui_mode.tag = "Adding"
    /\ ui_mode.step = 1
    /\ ui_mode.name = <<>>
    /\ \E i \in 1..Len(aliases) : aliases[i].keybind = <<"a">>
    /\ ENABLED (KeyEvent(KeyChar("a")) /\ ui_mode'.name = <<"a">> /\ is_none(child') /\ pc' = "read")

====
